---- MODULE Spec2Model ----
(***************************************************************************)
(* A model of the smile-controlled flappy game: the FaceDetector class     *)
(* (src/face-detection.js) and the FlappyGame class (src/game.js).         *)
(*                                                                         *)
(* Units.  Blendshape and smile scores are held in hundredths (0.6 is 60). *)
(* The smoothed score is a mean of 1..5 samples, so it is held in units of *)
(* 1/(100 * MeanScale), MeanScale = lcm(1..5), which makes every mean an   *)
(* integer.  Lengths and velocities are held in tenths of a pixel (gravity *)
(* 0.2 is 2).  Times are held in display frames of 1/60 s (500 ms is 30).  *)
(***************************************************************************)
EXTENDS Integers, Sequences, FiniteSets, TLC

VARIABLES
    \* ---- FaceDetector (src/face-detection.js:12-28)
    isInitialized,   \* this.isInitialized
    onSmileChange,   \* TRUE when the game's consumer callback is installed
    detAnimationId,  \* TRUE when a detectFrame callback is requested
    initContinuation,\* TRUE from initialize() resolving until its awaiter has resumed
    smileScore,      \* this.smileScore, in units of 1/(100*MeanScale)
    isSmiling,       \* this.isSmiling
    smileBuffer,     \* this.smileBuffer, hundredths
    \* ---- what the step into this state did (observers, no code state)
    cycle,           \* "face" or "noface" after an inference cycle, else "none"
    notified,        \* argument of the cycle's onSmileChange call: "none", "true", "false"
    flapCalled,      \* TRUE when the consumer called this.flap() in the cycle
    \* ---- what the detector has been fed (observers, no code state)
    lastSamples,     \* the last <= bufferSize composites ingested, no face as 0
    noFaceRun,       \* consecutive no-face cycles up to now, counted up to bufferSize
    scenarioPos,     \* samples of Scenario ingested so far by a fresh detector, -1 when off it
    scenarioFlips,   \* positions of Scenario at which isSmiling became TRUE
    \* ---- the detection loop in time (observers, no code state)
    detAge,          \* display frames since the last inference, counted up to DETECT_FRAME_INTERVAL
    detDue,          \* the requested detectFrame callback is due: a display frame has begun
    stopped          \* stop() has been called on this detector

VARIABLES
    \* ---- FlappyGame simulation (src/game.js:39-51)
    birdY,           \* this.birdY, tenths
    birdVelocity,    \* this.birdVelocity, tenths per tick
    obstacles,       \* this.obstacles: sequence of [x, gapTop, gapBottom, passed]
    score,           \* this.score
    gameStarted,     \* this.gameStarted
    gameOver,        \* this.gameOver
    flapAge,         \* Date.now() - this.lastFlapTime, counted up to MIN_FLAP_INTERVAL
    loopAge,         \* currentTime - this.lastGameLoopTime, counted up to GAME_FRAME_INTERVAL
    currentRound,    \* this.currentRound
    bestScore,       \* this.bestScore
    \* ---- screens and pending callbacks
    screen,          \* the screen with class active: "intro", "game", "cta"
    roundOverHidden, \* the round-over overlay has class hidden
    loads,           \* startGame calls awaiting faceDetector.initialize()
    initFailed,      \* the loading text shows the initialization failure
    intervals,       \* live countdown intervals, oldest first: [count, flapped, ticked]
    countdownLive,   \* this.countdownInterval is the id of the newest live interval
    frames,          \* requested gameLoop callbacks, oldest first: [due, stored]
    \* ---- observers, no code state
    lastOp,          \* the operation the step into this state ran
    ticks,           \* update() calls in the round, from its reset on
    marked,          \* obstacles whose passed flag was seen to turn true in the round
    flaps            \* accepted flaps in the round, from its reset on

simVars == <<birdY, birdVelocity, obstacles, score, gameStarted, gameOver>>
clockVars == <<flapAge, loopAge>>
sessionVars == <<currentRound, bestScore>>
uiVars == <<screen, roundOverHidden, loads, initFailed>>
schedVars == <<intervals, countdownLive, frames>>
obsVars == <<lastOp, ticks, marked, flaps>>
gameVars == <<simVars, clockVars, sessionVars, uiVars, schedVars, obsVars>>

detState == <<isInitialized, onSmileChange, detAnimationId, initContinuation,
              smileScore, isSmiling, smileBuffer>>
detFed == <<lastSamples, noFaceRun, scenarioPos, scenarioFlips>>
detStep == <<cycle, notified, flapCalled>>
detTime == <<detAge, detDue>>
detVars == <<detState, detFed, detStep, detTime, stopped>>

vars == <<detVars, gameVars>>

----------------------------------------------------------------------------
(* FaceDetector constants *)

bufferSize == 5
triggerThreshold == 60
resetThreshold == 40

\* lcm(1..bufferSize): the denominator every mean of 1..5 samples fits
MeanScale == 3 * 4 * 5

\* Scores the inference engine reports for one blendshape, in hundredths.
\* With these values the double-precision mean of every buffer compares with
\* 0.6 and 0.4 exactly as the real-valued mean does.
ScoreSet == {0, 90}

\* A blendshape entry is a score or is absent from the categories list (find
\* returns undefined), written -1.
Missing == -1
Entries == ScoreSet \cup {Missing}

\* The results of one detectForVideo call: no face, or one face with the two
\* mouth-smile entries.
NoFace == [face |-> FALSE, left |-> Missing, right |-> Missing]
Results == {NoFace} \cup [face : {TRUE}, left : Entries, right : Entries]

\* The results fed where the thresholds are met exactly: scores 0 and 1, whose
\* sums are exact in double precision, so that a mean of 3/5 or 2/5 is the
\* very double the literals 0.6 and 0.4 denote
EdgeResults == {NoFace} \cup [face : {TRUE}, left : {0, 100}, right : {0, 100}]

\* The results fed where the loop is followed in time: no face, or a full smile
TimedResults == {NoFace, [face |-> TRUE, left |-> 90, right |-> 90]}

\* 1000 / TARGET_FPS ms of the throttled loop, in display frames
DETECT_FRAME_INTERVAL == 4

\* The scenario of the specification: five samples of 0 then five of 0.9.
Scenario == <<0, 0, 0, 0, 0, 90, 90, 90, 90, 90>>

----------------------------------------------------------------------------
(* FaceDetector pure parts *)

RECURSIVE SumSeq(_)
SumSeq(s) == IF s = <<>> THEN 0 ELSE Head(s) + SumSeq(Tail(s))

\* getBlendshapeScore: the entry's score, 0 when the entry is absent
GetBlendshapeScore(entry) == IF entry = Missing THEN 0 ELSE entry

\* processResults: the composite of one face
Composite(results) ==
    (GetBlendshapeScore(results.left) + GetBlendshapeScore(results.right)) \div 2

\* PushSample with pop() in place of shift(): the newest entry is dropped
PushSampleDropNewest(buffer, sample) ==
    LET pushed == Append(buffer, sample)
    IN  IF Len(pushed) > bufferSize THEN SubSeq(pushed, 1, bufferSize) ELSE pushed

\* PushSample without the shift(): the buffer grows
PushSampleNoEvict(buffer, sample) == Append(buffer, sample)

\* detectSmile: push, then shift when over capacity
PushSample(buffer, sample) ==
    LET pushed == Append(buffer, sample)
    IN  IF Len(pushed) > bufferSize THEN Tail(pushed) ELSE pushed

\* detectSmile: reduce(sum) / length, in units of 1/(100*MeanScale)
Smoothed(buffer) == (SumSeq(buffer) * MeanScale) \div Len(buffer)

\* Hysteresis with one threshold half way, no dead zone
HysteresisOneThreshold(wasSmiling, smoothed) ==
    smoothed > ((triggerThreshold + resetThreshold) \div 2) * MeanScale

\* Hysteresis with >= and <= in place of > and <
HysteresisNonStrict(wasSmiling, smoothed) ==
    IF ~wasSmiling
    THEN smoothed >= triggerThreshold * MeanScale
    ELSE ~(smoothed <= resetThreshold * MeanScale)

\* detectSmile: the hysteresis, the new value of isSmiling
Hysteresis(wasSmiling, smoothed) ==
    IF ~wasSmiling
    THEN smoothed > triggerThreshold * MeanScale
    ELSE ~(smoothed < resetThreshold * MeanScale)

\* detectSmile notifying in every cycle, whether or not the state has changed
NotifyEveryCycle(wasSmiling, nowSmiling, installed) ==
    IF installed
    THEN (IF nowSmiling THEN "true" ELSE "false")
    ELSE "none"

\* detectSmile: the argument of the onSmileChange call, "none" when not called
Notify(wasSmiling, nowSmiling, installed) ==
    IF wasSmiling # nowSmiling /\ installed
    THEN (IF nowSmiling THEN "true" ELSE "false")
    ELSE "none"

\* a consumer that ignores its argument
ConsumerFlapsAlways(arg) == arg # "none"

\* the consumer installed by startGame: flap on a call with TRUE
ConsumerFlaps(arg) == arg = "true"

----------------------------------------------------------------------------
(* Observers *)

ScenarioNext(pos, isFace, sample) ==
    IF pos >= 0 /\ pos < Len(Scenario) /\ isFace /\ sample = Scenario[pos + 1]
    THEN pos + 1
    ELSE -1

\* the last <= bufferSize values fed, oldest first
KeepLast(fed, x) ==
    LET all == fed \o <<x>>
    IN  IF Len(all) > bufferSize THEN SubSeq(all, 2, Len(all)) ELSE all

Last(s) == s[Len(s)]

CountTo(n, limit) == IF n < limit THEN n + 1 ELSE limit

\* a step that runs no inference cycle
NoCycle ==
    /\ cycle' = "none"
    /\ notified' = "none"
    /\ flapCalled' = FALSE
    /\ UNCHANGED detFed

----------------------------------------------------------------------------
(* FaceDetector operations *)

\* processResults(results), the whole handler
ProcessResults(results) ==
    IF ~results.face
    THEN /\ smileScore' = 0
         /\ UNCHANGED <<isSmiling, smileBuffer>>
         /\ cycle' = "noface"
         /\ notified' = "none"
         /\ flapCalled' = FALSE
         /\ lastSamples' = KeepLast(lastSamples, 0)
         /\ noFaceRun' = CountTo(noFaceRun, bufferSize)
         /\ scenarioPos' = -1
         /\ UNCHANGED scenarioFlips
    ELSE LET composite == Composite(results)
             buffer == PushSample(smileBuffer, composite)
             smoothed == Smoothed(buffer)
             nowSmiling == Hysteresis(isSmiling, smoothed)
             arg == Notify(isSmiling, nowSmiling, onSmileChange)
             pos == ScenarioNext(scenarioPos, TRUE, composite)
         IN  /\ smileBuffer' = buffer
             /\ smileScore' = smoothed
             /\ isSmiling' = nowSmiling
             /\ cycle' = "face"
             /\ notified' = arg
             /\ flapCalled' = ConsumerFlaps(arg)
             /\ lastSamples' = KeepLast(lastSamples, composite)
             /\ noFaceRun' = 0
             /\ scenarioPos' = pos
             /\ scenarioFlips' =
                    IF pos > 0 /\ ~isSmiling /\ nowSmiling
                    THEN Append(scenarioFlips, pos)
                    ELSE scenarioFlips

\* initialize() resolving: isInitialized is set and startDetectionLoop runs
\* detectFrame at once, before the awaiting startGame resumes
Initialize(results) ==
    /\ ~isInitialized
    /\ isInitialized' = TRUE
    /\ ProcessResults(results)
    /\ detAnimationId' = TRUE
    /\ initContinuation' = TRUE
    /\ detAge' = 0
    /\ detDue' = FALSE
    /\ UNCHANGED <<onSmileChange, stopped>>

\* a startGame resuming after its await with this detector in
\* this.faceDetector: this.faceDetector.onSmileChange = ...  It is this
\* detector's own awaiter, or the awaiter of a detector created earlier.
SetOnSmileChange ==
    /\ initContinuation \/ ~isInitialized
    /\ onSmileChange' = TRUE
    /\ initContinuation' = FALSE
    /\ NoCycle
    /\ UNCHANGED <<isInitialized, detAnimationId, smileScore, isSmiling, smileBuffer,
                   detTime, stopped>>

\* this detector's awaiter resuming when the game holds another detector, or
\* none: this one gets no callback from it
ResumeElsewhere ==
    /\ initContinuation
    /\ initContinuation' = FALSE
    /\ NoCycle
    /\ UNCHANGED <<isInitialized, onSmileChange, detAnimationId, smileScore,
                   isSmiling, smileBuffer, detTime, stopped>>

\* the detectFrame animation-frame callback; the awaiter of initialize() is a
\* microtask and has resumed before any animation frame
DetectFrame(results) ==
    /\ detAnimationId
    /\ ~initContinuation
    /\ isInitialized
    /\ ProcessResults(results)
    /\ detAnimationId' = TRUE
    /\ detAge' = 0
    /\ detDue' = FALSE
    /\ UNCHANGED <<isInitialized, onSmileChange, initContinuation, stopped>>

\* the display refreshes with a detectFrame callback requested: a frame of
\* time has passed and the callback is due
DetVsync ==
    /\ detAnimationId
    /\ ~detDue
    /\ detDue' = TRUE
    /\ detAge' = IF detAge < DETECT_FRAME_INTERVAL THEN detAge + 1 ELSE detAge
    /\ NoCycle
    /\ UNCHANGED <<detState, stopped>>

\* the detectFrame callback run by the display frame it was requested for
DetectFrameDue(results) ==
    /\ detDue
    /\ DetectFrame(results)

\* stop(): the requested frame is cancelled
Stop ==
    /\ detAnimationId' = FALSE
    /\ detDue' = FALSE
    /\ stopped' = TRUE
    /\ NoCycle
    /\ UNCHANGED <<isInitialized, onSmileChange, initContinuation, smileScore,
                   isSmiling, smileBuffer, detAge>>

----------------------------------------------------------------------------
(* FlappyGame constants: lengths in tenths, times in display frames *)

SCREEN_WIDTH == 6400
SCREEN_HEIGHT == 4800
GRAVITY == 2
FLAP_STRENGTH == -70
OBSTACLE_SPEED == 25
OBSTACLE_WIDTH == 800
GAP_SIZE == 2000
BIRD_SIZE == 600
BIRD_X == 1500
SPAWN_DISTANCE == 3000
MIN_FLAP_INTERVAL == 30
TerminalVelocity == 100
GAME_FRAME_INTERVAL == 2
maxRounds == 3
CountdownFrom == 3
PassScore == 10
minGapTop == 800

birdRadius == BIRD_SIZE \div 2
maxGapTop == SCREEN_HEIGHT - GAP_SIZE - minGapTop

\* Bounds of the model.  SpecFlight follows one round far enough for the
\* terminal velocity to be reached; SpecPlaythrough and SpecSession follow
\* whole sessions, each round far enough for the bird to fall to the floor.
FlightTicks == 90    \* SpecFlight: update() calls in the round
FlightFlaps == 1     \* SpecFlight: accepted flaps in the round
SessionTicks == 46   \* sessions: update() calls in one round
SessionFlaps == 1    \* sessions: accepted flaps in one round
MaxLoads == 2        \* startGame calls awaiting initialize() at one time
MaxIntervals == 2    \* live countdown intervals
MaxLoops == 2        \* requested gameLoop callbacks
PilotTicks == 480    \* SpecPilot: update() calls in one round
PilotFlaps == 6      \* SpecPilot: accepted flaps in one round
PilotSlack == 20     \* SpecPilot: how far below the line the flap comes at the latest
ClimbTicks == 200    \* SpecClimb: update() calls in the round
ClimbFlaps == 16     \* SpecClimb: accepted flaps in the round
ClimbSlack == 80     \* SpecClimb: how far below the ceiling the flap comes at the latest
BounceFlaps == 5     \* SpecBounce: accepted flaps in the round
GlideTicks == 240    \* SpecGlide: update() calls in the round

\* The height the piloting player holds the bird above: the flap comes when the
\* bird falls through it
PilotLine == SCREEN_HEIGHT \div 2

\* Inputs of checkCollision, taken alone: heights of the bird between the
\* ceiling and the floor, on either side of the edges of the gaps below;
\* places of an obstacle on its way (SCREEN_WIDTH less a multiple of
\* OBSTACLE_SPEED), on either side of the bird; tops of its gap
CollisionYs == {300, 500, 1039, 1040, 1239, 1240, 2000, 2760, 2761, 4500}
CollisionXs == {SCREEN_WIDTH - 238 * OBSTACLE_SPEED, SCREEN_WIDTH - 237 * OBSTACLE_SPEED,
                SCREEN_WIDTH - 216 * OBSTACLE_SPEED, SCREEN_WIDTH - 187 * OBSTACLE_SPEED,
                SCREEN_WIDTH - 186 * OBSTACLE_SPEED, SCREEN_WIDTH}
CollisionGapTops == {minGapTop, 1000, maxGapTop - 1}

\* Values of minGapTop + Math.random() * (maxGapTop - minGapTop), random in
\* [0, 1): the least one and the greatest one the grid of tenths holds
GapTops == {minGapTop, maxGapTop - 1}

\* A session ends every round before an obstacle is near the bird: one
\* value stands for them all
SessionGapTops == {minGapTop}

----------------------------------------------------------------------------
(* FlappyGame pure parts *)

Min(a, b) == IF a < b THEN a ELSE b

\* update without the terminal velocity
GravityUnclamped(velocity) == velocity + GRAVITY

\* update: gravity and the terminal velocity
Gravity(velocity) ==
    LET v == velocity + GRAVITY
    IN  IF v > TerminalVelocity THEN TerminalVelocity ELSE v

\* update without the floor
MoveBirdNoFloor(y, velocity) ==
    LET v1 == Gravity(velocity)
        y1 == y + v1
        ceiling == y1 < birdRadius
    IN  [y |-> IF ceiling THEN birdRadius ELSE y1,
         velocity |-> IF ceiling THEN 0 ELSE v1,
         over |-> FALSE]

\* update with the ceiling treated as the floor is
MoveBirdCeilingKills(y, velocity) ==
    LET v1 == Gravity(velocity)
        y1 == y + v1
        ceiling == y1 < birdRadius
        y2 == IF ceiling THEN birdRadius ELSE y1
        v2 == IF ceiling THEN 0 ELSE v1
        floor == y2 > SCREEN_HEIGHT - birdRadius
        y3 == IF floor THEN SCREEN_HEIGHT - birdRadius ELSE y2
    IN  [y |-> y3, velocity |-> v2, over |-> floor \/ ceiling]

\* update: integrate, then clamp to the ceiling and to the floor
\* gives [y, velocity, over]
MoveBird(y, velocity) ==
    LET v1 == Gravity(velocity)
        y1 == y + v1
        ceiling == y1 < birdRadius
        y2 == IF ceiling THEN birdRadius ELSE y1
        v2 == IF ceiling THEN 0 ELSE v1
        floor == y2 > SCREEN_HEIGHT - birdRadius
        y3 == IF floor THEN SCREEN_HEIGHT - birdRadius ELSE y2
    IN  [y |-> y3, velocity |-> v2, over |-> floor]

\* spawnObstacle with the gap's bottom not measured from its top
NewObstacleFixedBottom(gapTop) ==
    [x |-> SCREEN_WIDTH, gapTop |-> gapTop, gapBottom |-> minGapTop + GAP_SIZE,
     passed |-> FALSE]

\* spawnObstacle
NewObstacle(gapTop) ==
    [x |-> SCREEN_WIDTH, gapTop |-> gapTop, gapBottom |-> gapTop + GAP_SIZE,
     passed |-> FALSE]

\* the spawn policy with >= in place of >
SpawnAtDistance(obs, gapTop) ==
    IF Len(obs) = 0
    THEN Append(obs, NewObstacle(gapTop))
    ELSE IF SCREEN_WIDTH - obs[Len(obs)].x >= SPAWN_DISTANCE
         THEN Append(obs, NewObstacle(gapTop))
         ELSE obs

\* update: the spawn policy
Spawn(obs, gapTop) ==
    IF Len(obs) = 0
    THEN Append(obs, NewObstacle(gapTop))
    ELSE IF SCREEN_WIDTH - obs[Len(obs)].x > SPAWN_DISTANCE
         THEN Append(obs, NewObstacle(gapTop))
         ELSE obs

\* update marking an obstacle passed only once it is behind the bird's shrunk
\* box
MoveObstacleAtClearance(o) ==
    LET x == o.x - OBSTACLE_SPEED
    IN  [o EXCEPT !.x = x,
                  !.passed = o.passed
                      \/ (x + OBSTACLE_WIDTH
                             <= BIRD_X - BIRD_SIZE \div 2 + BIRD_SIZE \div 10)]

\* update: one obstacle of the loop, moved and marked
MoveObstacle(o) ==
    LET x == o.x - OBSTACLE_SPEED
    IN  [o EXCEPT !.x = x,
                  !.passed = o.passed \/ (x + OBSTACLE_WIDTH < BIRD_X)]

\* update with no removal: an obstacle stays in the list for good
OffScreenNever(o) == FALSE

\* update: the removal test of the loop
OffScreen(o) == o.x + OBSTACLE_WIDTH < 0

\* update: the obstacles after the loop
MoveObstacles(obs) ==
    LET moved == [i \in 1..Len(obs) |-> MoveObstacle(obs[i])]
        Kept(o) == ~OffScreen(o)
    IN  SelectSeq(moved, Kept)

\* update without the test of the passed flag: every obstacle behind the bird
\* scores in every tick
NewlyPassedAgain(obs) ==
    Cardinality({i \in 1..Len(obs) : MoveObstacle(obs[i]).passed})

\* update: the obstacles the loop marks passed
NewlyPassed(obs) ==
    Cardinality({i \in 1..Len(obs) : ~obs[i].passed /\ MoveObstacle(obs[i]).passed})

\* checkCollision without the forgiveness margin
CheckCollisionNoForgiveness(y, obs) ==
    LET safeTop == y - BIRD_SIZE \div 2
        safeBottom == y + BIRD_SIZE \div 2
        safeLeft == BIRD_X - BIRD_SIZE \div 2
        safeRight == BIRD_X + BIRD_SIZE \div 2
    IN  \/ safeTop < 0
        \/ safeBottom > SCREEN_HEIGHT
        \/ \E i \in 1..Len(obs) :
              /\ safeRight > obs[i].x
              /\ safeLeft < obs[i].x + OBSTACLE_WIDTH
              /\ (safeTop < obs[i].gapTop \/ safeBottom > obs[i].gapBottom)

\* checkCollision
CheckCollision(y, obs) ==
    LET forgiveness == BIRD_SIZE \div 10
        safeTop == (y - BIRD_SIZE \div 2) + forgiveness
        safeBottom == (y + BIRD_SIZE \div 2) - forgiveness
        safeLeft == (BIRD_X - BIRD_SIZE \div 2) + forgiveness
        safeRight == (BIRD_X + BIRD_SIZE \div 2) - forgiveness
    IN  \/ safeTop < 0
        \/ safeBottom > SCREEN_HEIGHT
        \/ \E i \in 1..Len(obs) :
              /\ safeRight > obs[i].x
              /\ safeLeft < obs[i].x + OBSTACLE_WIDTH
              /\ (safeTop < obs[i].gapTop \/ safeBottom > obs[i].gapBottom)

\* update() returning where it sets gameOver at the floor
UpdateStopsAtFloor(y, velocity, obs, sc, over, gapTop) ==
    LET bird == MoveBird(y, velocity)
        spawned == Spawn(obs, gapTop)
        after == MoveObstacles(spawned)
    IN  IF bird.over
        THEN [y |-> bird.y, velocity |-> bird.velocity, obstacles |-> obs,
              score |-> sc, over |-> TRUE]
        ELSE [y |-> bird.y,
              velocity |-> bird.velocity,
              obstacles |-> after,
              score |-> sc + PassScore * NewlyPassed(spawned),
              over |-> over \/ CheckCollision(bird.y, after)]

\* update(): gives [y, velocity, obstacles, score, over]
Update(y, velocity, obs, sc, over, gapTop) ==
    LET bird == MoveBird(y, velocity)
        spawned == Spawn(obs, gapTop)
        after == MoveObstacles(spawned)
    IN  [y |-> bird.y,
         velocity |-> bird.velocity,
         obstacles |-> after,
         score |-> sc + PassScore * NewlyPassed(spawned),
         over |-> over \/ bird.over \/ CheckCollision(bird.y, after)]

\* flap without the Running test
FlapAcceptsAnywhere(age, started, over) == ~(age < MIN_FLAP_INTERVAL)

\* flap: neither early return is taken
FlapAccepts(age, started, over) ==
    /\ ~(age < MIN_FLAP_INTERVAL)
    /\ ~(~started \/ over)

\* cancelAnimationFrame(this.animationId): the stored request, if it is
\* still requested, is gone
CancelStored(fs) ==
    LET Kept(f) == ~f.stored
    IN  SelectSeq(fs, Kept)

\* this.animationId = requestAnimationFrame(...): the new request is the
\* stored one
RequestStored(fs) ==
    [i \in 1..Len(fs) |-> [fs[i] EXCEPT !.stored = FALSE]]
        \o <<[due |-> FALSE, stored |-> TRUE]>>

\* clearInterval(this.countdownInterval)
ClearInterval(ivs, live) ==
    IF live THEN SubSeq(ivs, 1, Len(ivs) - 1) ELSE ivs

\* gameLoop with no cap on the tick rate
TooSoonNever(elapsed) == FALSE

\* gameLoop: elapsed < GAME_FRAME_INTERVAL
TooSoon(elapsed) == elapsed < GAME_FRAME_INTERVAL

----------------------------------------------------------------------------
(* The page: which control can be clicked.  The buttons are on the screens  *)
(* and overlays of index.html, which show them as the specification's round *)
(* states do.                                                               *)

StartAvailable == screen = "intro"
ReplayAvailable == screen = "cta"
NextRoundAvailable == screen = "game" /\ ~roundOverHidden
QuitAvailable == screen = "game"

----------------------------------------------------------------------------
(* FlappyGame operations *)

\* startGame and startNextRound: "Reset game state"
ResetRound ==
    /\ gameOver' = FALSE
    /\ gameStarted' = FALSE
    /\ score' = 0
    /\ obstacles' = <<>>
    /\ birdY' = SCREEN_HEIGHT \div 2
    /\ birdVelocity' = 0
    /\ ticks' = 0
    /\ marked' = 0
    /\ flaps' = 0

\* A countdown interval: the count of its closure, and whether a flap was
\* accepted, or a tick run, in the 1000 ms since it was set or last fired
NewInterval == [count |-> CountdownFrom, flapped |-> FALSE, ticked |-> FALSE]

Flapped(ivs) == [i \in 1..Len(ivs) |-> [ivs[i] EXCEPT !.flapped = TRUE]]
Ticked(ivs) == [i \in 1..Len(ivs) |-> [ivs[i] EXCEPT !.ticked = TRUE]]

\* startCountdown(): a new interval counting from 3
StartCountdown(ivs) ==
    /\ Len(ivs) < MaxIntervals
    /\ intervals' = Append(ivs, NewInterval)
    /\ countdownLive' = TRUE

\* startGame() starting the session from scratch, the best score included
StartGameFreshBest(round) ==
    /\ loads < MaxLoads
    /\ ResetRound
    /\ frames' = CancelStored(frames)
    /\ intervals' = ClearInterval(intervals, countdownLive)
    /\ countdownLive' = FALSE
    /\ currentRound' = round
    /\ screen' = "game"
    /\ roundOverHidden' = TRUE
    /\ loads' = loads + 1
    /\ initFailed' = FALSE
    /\ lastOp' = "start"
    /\ bestScore' = 0
    /\ UNCHANGED clockVars

\* startGame() up to its await
StartGame(round) ==
    /\ loads < MaxLoads
    /\ ResetRound
    /\ frames' = CancelStored(frames)
    /\ intervals' = ClearInterval(intervals, countdownLive)
    /\ countdownLive' = FALSE
    /\ currentRound' = round
    /\ screen' = "game"
    /\ roundOverHidden' = TRUE
    /\ loads' = loads + 1
    /\ initFailed' = FALSE
    /\ lastOp' = "start"
    /\ UNCHANGED <<clockVars, bestScore>>

\* a click on start-btn, on the intro screen
ClickStart ==
    /\ StartAvailable
    /\ StartGame(currentRound)

\* a click on cta-replay-btn, on the CTA screen
ClickReplay ==
    /\ ReplayAvailable
    /\ StartGame(1)

\* startGame() resuming after initialize() resolved
InitResolved ==
    /\ loads > 0
    /\ loads' = loads - 1
    /\ StartCountdown(intervals)
    /\ lastOp' = "resolved"
    /\ UNCHANGED <<simVars, clockVars, sessionVars, screen, roundOverHidden,
                   initFailed, frames, ticks, marked, flaps>>

\* startGame() resuming in its catch after initialize() threw
InitRejected ==
    /\ loads > 0
    /\ loads' = loads - 1
    /\ initFailed' = TRUE
    /\ lastOp' = "rejected"
    /\ UNCHANGED <<simVars, clockVars, sessionVars, screen, roundOverHidden,
                   schedVars, ticks, marked, flaps>>

\* beginGameplay() without the / 2: the bird starts at the bottom edge
BeginGameplayAtBottom ==
    /\ Len(frames) < MaxLoops
    /\ birdY' = SCREEN_HEIGHT
    /\ birdVelocity' = 0
    /\ obstacles' = <<>>
    /\ score' = 0
    /\ gameStarted' = TRUE
    /\ gameOver' = FALSE
    /\ frames' = Append(frames, [due |-> FALSE, stored |-> FALSE])
    /\ ticks' = 0
    /\ marked' = 0
    /\ flaps' = 0

\* beginGameplay()
BeginGameplay ==
    /\ Len(frames) < MaxLoops
    /\ birdY' = SCREEN_HEIGHT \div 2
    /\ birdVelocity' = 0
    /\ obstacles' = <<>>
    /\ score' = 0
    /\ gameStarted' = TRUE
    /\ gameOver' = FALSE
    /\ frames' = Append(frames, [due |-> FALSE, stored |-> FALSE])
    /\ ticks' = 0
    /\ marked' = 0
    /\ flaps' = 0

\* the callback of countdown interval i, 1000 ms after the interval was set
\* or last fired: an age not restarted since then is past its limit.  A
\* count below 0 acts as 0 does.
CountdownFire(i) ==
    LET count == IF intervals[i].count > 0 THEN intervals[i].count - 1 ELSE 0
        counted == [intervals EXCEPT ![i] =
                       [count |-> count, flapped |-> FALSE, ticked |-> FALSE]]
    IN  /\ lastOp' = "countdown"
        /\ flapAge' = IF intervals[i].flapped THEN flapAge ELSE MIN_FLAP_INTERVAL
        /\ loopAge' = IF intervals[i].ticked THEN loopAge ELSE GAME_FRAME_INTERVAL
        /\ UNCHANGED <<sessionVars, uiVars>>
        /\ IF count > 0
           THEN /\ intervals' = counted
                /\ UNCHANGED <<simVars, countdownLive, frames, ticks, marked, flaps>>
           ELSE /\ intervals' = ClearInterval(counted, countdownLive)
                /\ countdownLive' = FALSE
                /\ IF ~gameOver
                   THEN BeginGameplay
                   ELSE UNCHANGED <<simVars, frames, ticks, marked, flaps>>

\* flap() with lastFlapTime set before the two tests
FlapStampsFirst(maxFlaps) ==
    LET accepted == FlapAccepts(flapAge, gameStarted, gameOver)
    IN  /\ accepted => flaps < maxFlaps
        /\ lastOp' = "flap"
        /\ flapAge' = 0
        /\ IF accepted
           THEN /\ birdVelocity' = FLAP_STRENGTH
                /\ flaps' = flaps + 1
                /\ intervals' = Flapped(intervals)
           ELSE UNCHANGED <<birdVelocity, flaps, intervals>>
        /\ UNCHANGED <<birdY, obstacles, score, gameStarted, gameOver, loopAge,
                       sessionVars, uiVars, countdownLive, frames, ticks, marked>>

\* flap() with += in place of =: the impulse adds to the velocity
FlapAdds(maxFlaps) ==
    LET accepted == FlapAccepts(flapAge, gameStarted, gameOver)
    IN  /\ accepted => flaps < maxFlaps
        /\ lastOp' = "flap"
        /\ IF accepted
           THEN /\ birdVelocity' = birdVelocity + FLAP_STRENGTH
                /\ flapAge' = 0
                /\ flaps' = flaps + 1
                /\ intervals' = Flapped(intervals)
           ELSE UNCHANGED <<birdVelocity, flapAge, flaps, intervals>>
        /\ UNCHANGED <<birdY, obstacles, score, gameStarted, gameOver, loopAge,
                       sessionVars, uiVars, countdownLive, frames, ticks, marked>>

\* flap(), from the detector's consumer or any other caller
Flap(maxFlaps) ==
    LET accepted == FlapAccepts(flapAge, gameStarted, gameOver)
    IN  /\ accepted => flaps < maxFlaps
        /\ lastOp' = "flap"
        /\ IF accepted
           THEN /\ birdVelocity' = FLAP_STRENGTH
                /\ flapAge' = 0
                /\ flaps' = flaps + 1
                /\ intervals' = Flapped(intervals)
           ELSE UNCHANGED <<birdVelocity, flapAge, flaps, intervals>>
        /\ UNCHANGED <<birdY, obstacles, score, gameStarted, gameOver, loopAge,
                       sessionVars, uiVars, countdownLive, frames, ticks, marked>>

\* the display refreshes with callbacks requested: those of the last frame
\* have run, a frame of time has passed and the requested ones are due
Vsync ==
    /\ frames # <<>>
    /\ \A i \in 1..Len(frames) : ~frames[i].due
    /\ flapAge' = Min(flapAge + 1, MIN_FLAP_INTERVAL)
    /\ loopAge' = Min(loopAge + 1, GAME_FRAME_INTERVAL)
    /\ frames' = [i \in 1..Len(frames) |-> [frames[i] EXCEPT !.due = TRUE]]
    /\ lastOp' = "vsync"
    /\ UNCHANGED <<simVars, sessionVars, uiVars, intervals, countdownLive, ticks, marked, flaps>>

\* showCTAScreen(), but for the detector
ShowCTAScreen(fs) ==
    /\ frames' = CancelStored(fs)
    /\ screen' = "cta"

\* handleGameOver() with <= in place of < in the test of the round
HandleGameOverOffByOne(rest, roundScore) ==
    /\ gameStarted' = FALSE
    /\ bestScore' = IF roundScore > bestScore THEN roundScore ELSE bestScore
    /\ IF currentRound <= maxRounds
       THEN /\ roundOverHidden' = FALSE
            /\ frames' = rest
            /\ UNCHANGED screen
       ELSE /\ ShowCTAScreen(rest)
            /\ UNCHANGED roundOverHidden

\* handleGameOver() without the branch of the final round
HandleGameOverAlwaysRoundOver(rest, roundScore) ==
    /\ gameStarted' = FALSE
    /\ bestScore' = IF roundScore > bestScore THEN roundScore ELSE bestScore
    /\ roundOverHidden' = FALSE
    /\ frames' = rest
    /\ UNCHANGED screen

\* handleGameOver() without gameStarted = false
HandleGameOverKeepsStarted(rest, roundScore) ==
    /\ UNCHANGED gameStarted
    /\ bestScore' = IF roundScore > bestScore THEN roundScore ELSE bestScore
    /\ IF currentRound < maxRounds
       THEN /\ roundOverHidden' = FALSE
            /\ frames' = rest
            /\ UNCHANGED screen
       ELSE /\ ShowCTAScreen(rest)
            /\ UNCHANGED roundOverHidden

\* handleGameOver() keeping the last round's score as the best
HandleGameOverLastScore(rest, roundScore) ==
    /\ gameStarted' = FALSE
    /\ bestScore' = roundScore
    /\ IF currentRound < maxRounds
       THEN /\ roundOverHidden' = FALSE
            /\ frames' = rest
            /\ UNCHANGED screen
       ELSE /\ ShowCTAScreen(rest)
            /\ UNCHANGED roundOverHidden

\* handleGameOver(), the callback that ran being off the requested ones
HandleGameOver(rest, roundScore) ==
    /\ gameStarted' = FALSE
    /\ bestScore' = IF roundScore > bestScore THEN roundScore ELSE bestScore
    /\ IF currentRound < maxRounds
       THEN /\ roundOverHidden' = FALSE
            /\ frames' = rest
            /\ UNCHANGED screen
       ELSE /\ ShowCTAScreen(rest)
            /\ UNCHANGED roundOverHidden

\* The obstacles of the list after a tick that are marked passed and were not
\* before it: an obstacle is followed by its place, OBSTACLE_SPEED further on
MarkedBy(before, after) ==
    Cardinality({i \in 1..Len(after) :
        /\ after[i].passed
        /\ \E j \in 1..Len(before) :
              before[j].x - OBSTACLE_SPEED = after[i].x /\ ~before[j].passed})

\* gameLoop(currentTime): the oldest due callback runs
GameLoop(gapTop, maxTicks) ==
    /\ frames # <<>>
    /\ Head(frames).due
    /\ LET rest == Tail(frames)
       IN  IF ~gameStarted
           THEN /\ frames' = rest
                /\ lastOp' = "return"
                /\ UNCHANGED <<simVars, clockVars, sessionVars, screen,
                               roundOverHidden, intervals, ticks, marked>>
           ELSE IF TooSoon(loopAge)
           THEN /\ frames' = RequestStored(rest)
                /\ lastOp' = "skip"
                /\ UNCHANGED <<simVars, clockVars, sessionVars, screen,
                               roundOverHidden, intervals, ticks, marked>>
           ELSE LET u == Update(birdY, birdVelocity, obstacles, score, gameOver, gapTop)
                IN  /\ ticks < maxTicks
                    /\ loopAge' = 0
                    /\ birdY' = u.y
                    /\ birdVelocity' = u.velocity
                    /\ obstacles' = u.obstacles
                    /\ score' = u.score
                    /\ gameOver' = u.over
                    /\ ticks' = ticks + 1
                    /\ marked' = marked + MarkedBy(obstacles, u.obstacles)
                    /\ intervals' = Ticked(intervals)
                    /\ lastOp' = "tick"
                    /\ UNCHANGED <<flapAge, currentRound>>
                    /\ IF u.over
                       THEN HandleGameOver(rest, u.score)
                       ELSE /\ frames' = RequestStored(rest)
                            /\ UNCHANGED <<gameStarted, bestScore, screen,
                                           roundOverHidden>>
    /\ UNCHANGED <<loads, initFailed, countdownLive, flaps>>

\* a click on next-round-btn, on the round-over overlay: startNextRound()
ClickNextRound ==
    /\ NextRoundAvailable
    /\ roundOverHidden' = TRUE
    /\ ResetRound
    /\ frames' = CancelStored(frames)
    /\ currentRound' = currentRound + 1
    /\ StartCountdown(intervals)
    /\ lastOp' = "next"
    /\ UNCHANGED <<clockVars, bestScore, screen, loads, initFailed>>

\* quitGame() without gameOver = true
QuitGameKeepsGameOver ==
    /\ gameStarted' = FALSE
    /\ intervals' = ClearInterval(intervals, countdownLive)
    /\ countdownLive' = FALSE
    /\ ShowCTAScreen(frames)
    /\ lastOp' = "quit"
    /\ UNCHANGED <<birdY, birdVelocity, obstacles, score, gameOver, clockVars,
                   sessionVars, roundOverHidden, loads, initFailed, ticks, marked, flaps>>

\* quitGame()
QuitGame ==
    /\ gameStarted' = FALSE
    /\ gameOver' = TRUE
    /\ intervals' = ClearInterval(intervals, countdownLive)
    /\ countdownLive' = FALSE
    /\ ShowCTAScreen(frames)
    /\ lastOp' = "quit"
    /\ UNCHANGED <<birdY, birdVelocity, obstacles, score, clockVars, sessionVars,
                   roundOverHidden, loads, initFailed, ticks, marked, flaps>>

\* a click on quit-btn or quit-overlay-btn, on the game screen
ClickQuit ==
    /\ QuitAvailable
    /\ QuitGame

\* update: "Check collisions", taken alone
Collide ==
    /\ gameOver' = (gameOver \/ CheckCollision(birdY, obstacles))
    /\ lastOp' = "collision"
    /\ UNCHANGED <<birdY, birdVelocity, obstacles, score, gameStarted, clockVars,
                   sessionVars, uiVars, schedVars, ticks, marked, flaps>>

\* a round under way, the bird and at most one obstacle anywhere they can be
InitCollision ==
    /\ birdY \in CollisionYs
    /\ birdVelocity = 0
    /\ obstacles \in {<<>>} \cup
          {<<[x |-> x, gapTop |-> gapTop, gapBottom |-> gapTop + GAP_SIZE,
              passed |-> x + OBSTACLE_WIDTH < BIRD_X]>> :
                 x \in CollisionXs, gapTop \in CollisionGapTops}
    /\ score = IF obstacles # <<>> /\ obstacles[1].passed THEN PassScore ELSE 0
    /\ gameStarted = TRUE
    /\ gameOver = FALSE
    /\ flapAge = MIN_FLAP_INTERVAL
    /\ loopAge = GAME_FRAME_INTERVAL
    /\ currentRound = 1
    /\ bestScore = 0
    /\ screen = "game"
    /\ roundOverHidden = TRUE
    /\ loads = 0
    /\ initFailed = FALSE
    /\ intervals = <<>>
    /\ countdownLive = FALSE
    /\ frames = <<[due |-> TRUE, stored |-> TRUE]>>
    /\ lastOp = "init"
    /\ ticks = 1
    /\ marked = score \div PassScore
    /\ flaps = 0

InitGame ==
    /\ birdY = SCREEN_HEIGHT \div 2
    /\ birdVelocity = 0
    /\ obstacles = <<>>
    /\ score = 0
    /\ gameStarted = FALSE
    /\ gameOver = FALSE
    /\ flapAge = MIN_FLAP_INTERVAL
    /\ loopAge = GAME_FRAME_INTERVAL
    /\ currentRound = 1
    /\ bestScore = 0
    /\ screen = "intro"
    /\ roundOverHidden = TRUE
    /\ loads = 0
    /\ initFailed = FALSE
    /\ intervals = <<>>
    /\ countdownLive = FALSE
    /\ frames = <<>>
    /\ lastOp = "init"
    /\ ticks = 0
    /\ marked = 0
    /\ flaps = 0

----------------------------------------------------------------------------

InitDetector ==
    /\ isInitialized = FALSE
    /\ onSmileChange = FALSE
    /\ detAnimationId = FALSE
    /\ initContinuation = FALSE
    /\ smileScore = 0
    /\ isSmiling = FALSE
    /\ smileBuffer = <<>>
    /\ cycle = "none"
    /\ notified = "none"
    /\ flapCalled = FALSE
    /\ lastSamples = <<>>
    /\ noFaceRun = 0
    /\ scenarioPos = 0
    /\ scenarioFlips = <<>>
    /\ detAge = DETECT_FRAME_INTERVAL
    /\ detDue = FALSE
    /\ stopped = FALSE

Init == InitDetector /\ InitGame

NextDetector ==
    \/ (\E results \in Results : Initialize(results)) /\ UNCHANGED gameVars
    \/ SetOnSmileChange /\ UNCHANGED gameVars
    \/ ResumeElsewhere /\ UNCHANGED gameVars
    \/ (\E results \in Results : DetectFrame(results)) /\ UNCHANGED gameVars
    \/ Stop /\ UNCHANGED gameVars

NextDetectorTimed ==
    \/ (\E results \in TimedResults : Initialize(results)) /\ UNCHANGED gameVars
    \/ SetOnSmileChange /\ UNCHANGED gameVars
    \/ DetVsync /\ UNCHANGED gameVars
    \/ (\E results \in TimedResults : DetectFrameDue(results)) /\ UNCHANGED gameVars
    \/ Stop /\ UNCHANGED gameVars

NextDetectorEdge ==
    \/ (\E results \in EdgeResults : Initialize(results)) /\ UNCHANGED gameVars
    \/ SetOnSmileChange /\ UNCHANGED gameVars
    \/ ResumeElsewhere /\ UNCHANGED gameVars
    \/ (\E results \in EdgeResults : DetectFrame(results)) /\ UNCHANGED gameVars
    \/ Stop /\ UNCHANGED gameVars

NextFlight ==
    \/ ClickStart /\ UNCHANGED detVars
    \/ InitResolved /\ UNCHANGED detVars
    \/ (\E i \in 1..Len(intervals) : CountdownFire(i)) /\ UNCHANGED detVars
    \/ Flap(FlightFlaps) /\ UNCHANGED detVars
    \/ Vsync /\ UNCHANGED detVars
    \/ (\E gapTop \in GapTops : GameLoop(gapTop, FlightTicks)) /\ UNCHANGED detVars

NextPlaythrough ==
    \/ ClickStart /\ UNCHANGED detVars
    \/ InitResolved /\ UNCHANGED detVars
    \/ InitRejected /\ UNCHANGED detVars
    \/ (\E i \in 1..Len(intervals) : CountdownFire(i)) /\ UNCHANGED detVars
    \/ Flap(SessionFlaps) /\ UNCHANGED detVars
    \/ Vsync /\ UNCHANGED detVars
    \/ (\E gapTop \in SessionGapTops : GameLoop(gapTop, SessionTicks)) /\ UNCHANGED detVars
    \/ ClickNextRound /\ UNCHANGED detVars
    \/ ClickQuit /\ UNCHANGED detVars

NextQuit ==
    \/ ClickStart /\ UNCHANGED detVars
    \/ InitResolved /\ UNCHANGED detVars
    \/ InitRejected /\ UNCHANGED detVars
    \/ (\E i \in 1..Len(intervals) : CountdownFire(i)) /\ UNCHANGED detVars
    \/ Flap(SessionFlaps) /\ UNCHANGED detVars
    \/ Vsync /\ UNCHANGED detVars
    \/ (\E gapTop \in SessionGapTops : GameLoop(gapTop, SessionTicks)) /\ UNCHANGED detVars
    \/ ClickNextRound /\ UNCHANGED detVars
    \/ QuitGame /\ UNCHANGED detVars

NextSession ==
    \/ ClickStart /\ UNCHANGED detVars
    \/ ClickReplay /\ UNCHANGED detVars
    \/ InitResolved /\ UNCHANGED detVars
    \/ InitRejected /\ UNCHANGED detVars
    \/ (\E i \in 1..Len(intervals) : CountdownFire(i)) /\ UNCHANGED detVars
    \/ Flap(SessionFlaps) /\ UNCHANGED detVars
    \/ Vsync /\ UNCHANGED detVars
    \/ (\E gapTop \in SessionGapTops : GameLoop(gapTop, SessionTicks)) /\ UNCHANGED detVars
    \/ ClickNextRound /\ UNCHANGED detVars
    \/ ClickQuit /\ UNCHANGED detVars

\* The piloting player smiles now: a round runs, the bird falls at or below
\* the line, and flap() would accept
PilotSmiles ==
    /\ gameStarted /\ ~gameOver
    /\ birdVelocity > 0
    /\ birdY >= PilotLine
    /\ flaps < PilotFlaps
    /\ FlapAccepts(flapAge, gameStarted, gameOver)

\* flap() from the piloting player's smile
PilotFlap ==
    /\ PilotSmiles
    /\ Flap(PilotFlaps)

\* gameLoop, the piloting player's smile coming before it once the bird is
\* PilotSlack below the line
PilotLoop(gapTop) ==
    /\ ~(PilotSmiles /\ birdY >= PilotLine + PilotSlack)
    /\ GameLoop(gapTop, PilotTicks)

\* rounds of a player who keeps the bird up as long as PilotFlaps lasts
NextPilot ==
    \/ ClickStart /\ UNCHANGED detVars
    \/ InitResolved /\ UNCHANGED detVars
    \/ (\E i \in 1..Len(intervals) : CountdownFire(i)) /\ UNCHANGED detVars
    \/ PilotFlap /\ UNCHANGED detVars
    \/ Vsync /\ UNCHANGED detVars
    \/ (\E gapTop \in GapTops : PilotLoop(gapTop)) /\ UNCHANGED detVars
    \/ ClickNextRound /\ UNCHANGED detVars

\* The climbing player smiles now: a round runs, the bird falls, and flap()
\* would accept; the player smiles maxFlaps times in a round
ClimbSmiles(maxFlaps) ==
    /\ gameStarted /\ ~gameOver
    /\ birdVelocity > 0
    /\ flaps < maxFlaps
    /\ FlapAccepts(flapAge, gameStarted, gameOver)

\* flap() from the climbing player's smile
ClimbFlap(maxFlaps) ==
    /\ ClimbSmiles(maxFlaps)
    /\ Flap(maxFlaps)

\* gameLoop, the climbing player's smile coming before it once the bird is
\* ClimbSlack below the ceiling
ClimbLoop(gapTop, maxFlaps) ==
    /\ ~(ClimbSmiles(maxFlaps) /\ birdY >= birdRadius + ClimbSlack)
    /\ GameLoop(gapTop, ClimbTicks)

\* one round of a player who keeps the bird against the ceiling
NextClimb ==
    \/ ClickStart /\ UNCHANGED detVars
    \/ InitResolved /\ UNCHANGED detVars
    \/ (\E i \in 1..Len(intervals) : CountdownFire(i)) /\ UNCHANGED detVars
    \/ ClimbFlap(ClimbFlaps) /\ UNCHANGED detVars
    \/ Vsync /\ UNCHANGED detVars
    \/ (\E gapTop \in GapTops : ClimbLoop(gapTop, ClimbFlaps)) /\ UNCHANGED detVars

\* one round of a player who takes the bird to the ceiling and lets it fall
NextBounce ==
    \/ ClickStart /\ UNCHANGED detVars
    \/ InitResolved /\ UNCHANGED detVars
    \/ (\E i \in 1..Len(intervals) : CountdownFire(i)) /\ UNCHANGED detVars
    \/ ClimbFlap(BounceFlaps) /\ UNCHANGED detVars
    \/ Vsync /\ UNCHANGED detVars
    \/ (\E gapTop \in GapTops : ClimbLoop(gapTop, BounceFlaps)) /\ UNCHANGED detVars

\* flap() called while no round runs
FlapIdle ==
    /\ ~(gameStarted /\ ~gameOver)
    /\ Flap(SessionFlaps)

\* sessions with replay of a player who lets the bird fall in every round
NextReplay ==
    \/ ClickStart /\ UNCHANGED detVars
    \/ ClickReplay /\ UNCHANGED detVars
    \/ InitResolved /\ UNCHANGED detVars
    \/ InitRejected /\ UNCHANGED detVars
    \/ (\E i \in 1..Len(intervals) : CountdownFire(i)) /\ UNCHANGED detVars
    \/ FlapIdle /\ UNCHANGED detVars
    \/ Vsync /\ UNCHANGED detVars
    \/ (\E gapTop \in SessionGapTops : GameLoop(gapTop, SessionTicks)) /\ UNCHANGED detVars
    \/ ClickNextRound /\ UNCHANGED detVars
    \/ ClickQuit /\ UNCHANGED detVars

\* the detector alone, the game as constructed
SpecDetector == Init /\ [][NextDetector]_vars

\* the detector alone, its loop followed display frame by display frame
SpecDetectorTimed == Init /\ [][NextDetectorTimed]_vars

\* the detector alone, fed scores whose means meet the thresholds exactly
SpecDetectorEdge == Init /\ [][NextDetectorEdge]_vars

\* one round of the game, flap requests arriving at any moment
SpecFlight == Init /\ [][NextFlight]_vars

\* up to three rounds flown through the obstacles by a piloting player
SpecPilot == Init /\ [][NextPilot]_vars

\* one round flown against the ceiling until the first obstacle
SpecClimb == Init /\ [][NextClimb]_vars

\* one round flown to the ceiling and dropped to the floor
SpecBounce == Init /\ [][NextBounce]_vars

\* checkCollision alone, on a bird and an obstacle put anywhere
InitCollisionRound == InitDetector /\ InitCollision
NextCollision == Collide /\ UNCHANGED detVars
SpecCollision == InitCollisionRound /\ [][NextCollision]_vars

\* one session from the intro screen to the CTA screen: up to three rounds,
\* quit at any moment, flap requests arriving at any moment
SpecPlaythrough == Init /\ [][NextPlaythrough]_vars

\* one session, quitGame() called in any state whatever the page shows
SpecQuit == Init /\ [][NextQuit]_vars

\* one playthrough in which what the browser has scheduled does happen: the
\* promise of initialize() settles, interval callbacks and animation frames
\* fire, due frames run gameLoop.  Clicks and flap requests may never come.
SpecPlaythroughFair ==
    /\ Init
    /\ [][NextPlaythrough]_vars
    /\ WF_vars((InitResolved \/ InitRejected) /\ UNCHANGED detVars)
    /\ WF_vars((\E i \in 1..Len(intervals) : CountdownFire(i)) /\ UNCHANGED detVars)
    /\ WF_vars(Vsync /\ UNCHANGED detVars)
    /\ WF_vars((\E gapTop \in SessionGapTops : GameLoop(gapTop, SessionTicks)) /\ UNCHANGED detVars)

\* sessions of the game under every host operation, replays included
SpecSession == Init /\ [][NextSession]_vars

\* any number of sessions, no flap accepted
SpecReplay == Init /\ [][NextReplay]_vars

----------------------------------------------------------------------------
(* Properties of the FaceDetector, checked under SpecDetector *)

DeadZone(smoothed) ==
    /\ smoothed > resetThreshold * MeanScale
    /\ smoothed < triggerThreshold * MeanScale

\* C1: the smile buffer never holds more than 5 entries, and a cycle that
\* pushes onto a full buffer evicts the oldest entry: the rest moves up one
\* place and the new sample is last.
C1_BufferFifo ==
    /\ [](Len(smileBuffer) <= bufferSize)
    /\ [][cycle' = "face" =>
            IF Len(smileBuffer) = bufferSize
            THEN smileBuffer' = Tail(smileBuffer) \o <<Last(lastSamples')>>
            ELSE smileBuffer' = smileBuffer \o <<Last(lastSamples')>>]_vars

\* a sixth sample has been pushed: the scenario's first 0.9 evicted its first 0
C1_Witness ==
    /\ scenarioPos = bufferSize + 1
    /\ smileBuffer = <<0, 0, 0, 0, 90>>

\* C2: after every inference cycle smileScore is the mean of the last
\* min(n,5) composites ingested, a cycle with no face counting as a 0 that
\* is pushed like any other sample.
C2_MeanOfLastSamples ==
    cycle # "none" => smileScore = Smoothed(lastSamples)

\* C3: a cycle whose smoothed score is strictly inside (0.4, 0.6) leaves
\* isSmiling as it was, Idle or Active.
C3_DeadZoneStable ==
    [][(cycle' = "face" /\ DeadZone(smileScore')) => isSmiling' = isSmiling]_vars

\* Active, and a cycle has just ended inside the dead zone
C3_Witness ==
    /\ cycle = "face"
    /\ DeadZone(smileScore)
    /\ isSmiling

\* C4: every upward crossing (a cycle taking the state from Idle to Active)
\* fires the gesture event, the consumer's flap request.
C4_EveryCrossingFires ==
    [][(~isSmiling /\ isSmiling') => flapCalled']_vars

\* C4, the part the detector keeps: the gesture event fires in a cycle
\* exactly when the cycle takes the state from Idle to Active and the
\* consumer is installed; so no event fires while the state is Active, and
\* the state leaves Active only in a cycle whose smoothed score is below 0.4.
C4_OncePerCrossing ==
    [][/\ flapCalled' <=> (~isSmiling /\ isSmiling' /\ onSmileChange)
       /\ (isSmiling /\ ~isSmiling') =>
             (cycle' = "face" /\ smileScore' < resetThreshold * MeanScale)
       /\ (~isSmiling /\ isSmiling') =>
             (cycle' = "face" /\ smileScore' > triggerThreshold * MeanScale)]_vars

\* a cycle keeps the state Active above 0.6 and fires nothing
C4_Witness ==
    /\ cycle = "face"
    /\ onSmileChange
    /\ isSmiling
    /\ ~flapCalled
    /\ smileScore > triggerThreshold * MeanScale
    /\ Len(smileBuffer) = bufferSize

\* C5 as stated: the callback is called only on Idle to Active; an Active to
\* Idle transition calls nothing.
C5_IdleTransitionSilent ==
    notified # "false"

\* C5 as amended: the callback is called on each change of the state, with
\* the new state as its argument, and the consumer requests a flap only for
\* a call with true.
C5_CallbackOnChange ==
    [][/\ notified' = "true" <=> (~isSmiling /\ isSmiling' /\ onSmileChange)
       /\ notified' = "false" <=> (isSmiling /\ ~isSmiling' /\ onSmileChange)
       /\ flapCalled' <=> notified' = "true"]_vars

\* an Active to Idle transition has just called the callback with false
C5_Witness ==
    /\ notified = "false"
    /\ ~isSmiling
    /\ ~flapCalled

\* C6: after 5 consecutive cycles with no face the state is Idle.
C6_NoFaceDecays ==
    noFaceRun >= bufferSize => ~isSmiling

\* C7: a fresh detector fed 0,0,0,0,0,0.9,0.9,0.9,0.9,0.9 is Idle with
\* smoothed 0.54 after the 3rd 0.9, becomes Active with smoothed 0.72 at the
\* 4th, and has made that one transition only when the scenario ends.
C7_Scenario ==
    /\ scenarioPos = 8 =>
          (~isSmiling /\ scenarioFlips = <<>> /\ smileScore = 54 * MeanScale)
    /\ scenarioPos = 9 =>
          (isSmiling /\ scenarioFlips = <<9>> /\ smileScore = 72 * MeanScale)
    /\ scenarioPos = Len(Scenario) =>
          (isSmiling /\ scenarioFlips = <<9>>)

\* the scenario has been fed to its end
C7_Witness ==
    scenarioPos = Len(Scenario)

----------------------------------------------------------------------------
(* Properties of the FlappyGame *)

Running == gameStarted /\ ~gameOver

\* C8: whatever ticks and flaps have run, the bird's vertical velocity is at
\* most 10.
C8_VelocityCapped ==
    birdVelocity <= TerminalVelocity

\* a tick after a flap has held the velocity at the terminal velocity
C8_Witness ==
    /\ lastOp = "tick"
    /\ flaps > 0
    /\ birdVelocity = TerminalVelocity

\* C9: a flap request while Running is accepted (velocity -7, the window
\* restarted) when at least 500 ms have passed since the last accepted flap,
\* and otherwise leaves the velocity and the time of the last accepted flap
\* as they were.
C9_Debounce ==
    [][(lastOp' = "flap" /\ Running) =>
          IF flapAge >= MIN_FLAP_INTERVAL
          THEN birdVelocity' = FLAP_STRENGTH /\ flapAge' = 0
          ELSE UNCHANGED <<birdVelocity, flapAge>>]_vars

\* a request has been rejected inside the window of the accepted flap
C9_Witness ==
    /\ lastOp = "flap"
    /\ Running
    /\ flaps = 1
    /\ flapAge > 0
    /\ flapAge < MIN_FLAP_INTERVAL
    /\ birdVelocity # FLAP_STRENGTH

\* C10: a flap request outside Running (on the intro screen, while loading,
\* during the countdown, once gameOver is set, on the round-over overlay, on
\* the CTA screen, after a quit) changes nothing of the game.
C10_FlapOutsideRunning ==
    [][(lastOp' = "flap" /\ ~Running) =>
          UNCHANGED <<simVars, clockVars, sessionVars, uiVars, schedVars>>]_vars

\* a request has been made on the round-over overlay, the debounce window
\* long past
C10_Witness ==
    /\ lastOp = "flap"
    /\ ~gameStarted
    /\ gameOver
    /\ screen = "game"
    /\ ~roundOverHidden
    /\ flapAge = MIN_FLAP_INTERVAL

----------------------------------------------------------------------------
(* Properties of the two loops and of the session *)

\* C11: the tick that ends round 1 or round 2 leads to the round-over overlay
\* on the game screen, and the tick that ends round 3 leads to the CTA
\* screen with the overlay hidden.
C11_RoundFlow ==
    [][(lastOp' = "tick" /\ gameStarted /\ gameOver') =>
          /\ ~gameStarted'
          /\ IF currentRound \in {1, 2}
             THEN screen' = "game" /\ ~roundOverHidden'
             ELSE currentRound = 3 /\ screen' = "cta" /\ roundOverHidden']_vars

\* the third round has just ended on the CTA screen
C11_Witness ==
    /\ lastOp = "tick"
    /\ currentRound = 3
    /\ gameOver
    /\ screen = "cta"

SessionOver == screen = "cta" /\ currentRound = maxRounds

C15_Collision ==
    LET top == birdY - 300 + 60
        bottom == birdY + 300 - 60
        left == 1500 - 300 + 60
        right == 1500 + 300 - 60
        Overlaps(o) == o.x < right /\ left < o.x + 800
        OutsideGap(o) == top < o.gapTop \/ bottom > o.gapBottom
        InGap100(o) == o.gapTop = 1000 /\ o.gapBottom = 3000 /\ Overlaps(o)
    IN  lastOp = "collision" =>
          /\ gameOver <=>
                \/ top < 0
                \/ bottom > 4800
                \/ \E i \in 1..Len(obstacles) :
                      Overlaps(obstacles[i]) /\ OutsideGap(obstacles[i])
          /\ (birdY = 2000 /\ obstacles # <<>> /\ InGap100(obstacles[1])) => ~gameOver
          /\ (birdY = 500 /\ obstacles # <<>> /\ InGap100(obstacles[1])) => gameOver

\* the bird at 50, over an obstacle with gapTop 100, has collided
C15_Witness ==
    /\ lastOp = "collision"
    /\ birdY = 500
    /\ obstacles # <<>>
    /\ obstacles[1].gapTop = 1000
    /\ obstacles[1].x = SCREEN_WIDTH - 216 * OBSTACLE_SPEED
    /\ gameOver

\* C17: a failure to initialise the detector is fatal to the detector only:
\* after it the game still reaches Running, where flap() is accepted from
\* any caller.
C17_FailureLeavesGamePlayable == initFailed ~> (gameStarted /\ ~gameOver)

\* what startGame's catch leaves instead: no countdown is started, and no
\* round runs while the failure is shown
C17_FailureEndsAttempt ==
    initFailed => (~gameStarted /\ intervals = <<>> /\ frames = <<>>)

\* the failure shown on the game screen, nothing scheduled
C17_Witness == initFailed /\ screen = "game" /\ lastOp = "rejected"

\* C16 as stated: with no flap the bird is at 240 + 0.2 * (1 + ... + n) after
\* n ticks, for every n up to 50, the round still running.
C16_FreeFallFiftyTicks ==
    (flaps = 0 /\ ticks <= 50) =>
        /\ birdY = SCREEN_HEIGHT \div 2 + (GRAVITY * ticks * (ticks + 1)) \div 2
        /\ ~gameOver

\* C16 as amended: with no flap the bird is at 240 + 0.2 * (1 + ... + n), with
\* velocity 0.2 * n, after n ticks for n up to 45; the 46th tick takes it
\* past the floor, puts it at 450 and ends the round, and no 47th tick runs.
C16_FreeFallToFloor ==
    flaps = 0 =>
        /\ ticks <= 46
        /\ ticks <= 45 =>
              /\ birdY = SCREEN_HEIGHT \div 2 + (GRAVITY * ticks * (ticks + 1)) \div 2
              /\ birdVelocity = GRAVITY * ticks
              /\ ~gameOver
        /\ ticks = 46 =>
              /\ birdY = SCREEN_HEIGHT - birdRadius
              /\ gameOver
              /\ ~gameStarted

\* the free fall has ended on the floor
C16_Witness ==
    /\ flaps = 0
    /\ ticks = 46
    /\ lastOp = "tick"
    /\ birdY = SCREEN_HEIGHT - birdRadius

\* C19: a gameLoop callback of a started game runs update() when at least
\* 1000/30 ms have passed since the last callback that ran it, and then runs
\* it once; otherwise it changes nothing of the simulation.
C19_SkipIfTooSoon ==
    [][/\ lastOp' = "tick" =>
             (loopAge >= GAME_FRAME_INTERVAL /\ ticks' = ticks + 1 /\ loopAge' = 0)
       /\ lastOp' = "skip" =>
             (loopAge < GAME_FRAME_INTERVAL /\ UNCHANGED <<simVars, ticks, loopAge>>)
       /\ ticks' <= ticks + 1]_vars

\* a callback has come one display frame after a tick and has been skipped
C19_Witness ==
    /\ lastOp = "skip"
    /\ ticks > 0
    /\ loopAge = 1
    /\ Running

\* C18: once stop() has been called on a detector, the detector runs no
\* further inference cycle, whenever the call came, the time the detector is
\* still initialising included.
C18_StopHaltsDetection ==
    [][stopped => cycle' = "none"]_vars

\* C20: a detection callback runs an inference only if at least 1000/15 ms
\* have passed since the last processed frame.
C20_DropPolicy ==
    [][cycle' # "none" => detAge >= DETECT_FRAME_INTERVAL]_vars

----------------------------------------------------------------------------
(* Properties of a round: scoring, obstacles, the bird's bounds *)

\* C21: each obstacle is scored exactly once.  Its passed flag is true exactly
\* when x + 80 < 150, so it turns true in the first tick where that holds and
\* never turns back; the tick that turns n flags adds exactly 10 * n to the
\* score, no other step changes a flag or the score but a reset of the round,
\* and the score is always 10 times the number of flags turned in the round.
C21_ScoredOnce ==
    /\ [](/\ score = 10 * marked
          /\ \A i \in 1..Len(obstacles) :
                obstacles[i].passed <=> obstacles[i].x + 800 < 1500)
    /\ [][IF lastOp' = "tick"
          THEN /\ \A i \in 1..Len(obstacles') : \A j \in 1..Len(obstacles) :
                     obstacles[j].x - OBSTACLE_SPEED = obstacles'[i].x =>
                        (obstacles[j].passed => obstacles'[i].passed)
               /\ score' = score + 10 * (marked' - marked)
               /\ marked' - marked =
                     Cardinality({j \in 1..Len(obstacles) :
                        /\ ~obstacles[j].passed
                        /\ obstacles[j].x - OBSTACLE_SPEED + 800 < 1500})
          ELSE \/ UNCHANGED <<obstacles, score, marked>>
               \/ obstacles' = <<>> /\ score' = 0 /\ marked' = 0]_vars

\* the second obstacle of a round has just been scored, the first is off the
\* list and the third is on its way
C21_Witness ==
    /\ lastOp = "tick"
    /\ score = 20
    /\ marked = 2
    /\ Len(obstacles) = 2
    /\ obstacles[1].passed
    /\ obstacles[1].x + 800 = 1500 - OBSTACLE_SPEED
    /\ ~obstacles[2].passed

\* C22: when a tick ends the round through the terminal flag, bestScore
\* becomes the maximum of its previous value and the round's score; it never
\* decreases, so it is at least the score of every round that ended this way.
C22_BestScoreIsMax ==
    [][/\ (lastOp' = "tick" /\ gameOver') =>
            /\ bestScore' >= bestScore
            /\ bestScore' >= score'
            /\ bestScore' \in {bestScore, score'}
       /\ bestScore' >= bestScore]_vars

\* a round has ended with score 0 after one that ended with score 10
C22_Witness ==
    /\ lastOp = "tick"
    /\ gameOver
    /\ ticks > 0
    /\ score = 0
    /\ bestScore = 10

\* C23: a cycle that evaluates a sample takes Idle to Active iff the smoothed
\* score is above 0.6, Active to Idle iff it is below 0.4, and leaves the state
\* as it was otherwise; a smoothed score of exactly 0.6 does not trigger and
\* one of exactly 0.4 does not reset.
C23_HysteresisRule ==
    [][cycle' = "face" =>
         /\ (~isSmiling /\ isSmiling') <=> (~isSmiling /\ smileScore' > 60 * MeanScale)
         /\ (isSmiling /\ ~isSmiling') <=> (isSmiling /\ smileScore' < 40 * MeanScale)
         /\ (~isSmiling /\ smileScore' = 60 * MeanScale) => ~isSmiling'
         /\ (isSmiling /\ smileScore' = 40 * MeanScale) => isSmiling']_vars

\* Active, and a cycle has just ended at exactly 0.4
C23_Witness ==
    /\ cycle = "face"
    /\ isSmiling
    /\ smileScore = 40 * MeanScale

\* C24: an accepted flap (a round running, 500 ms or more since the last
\* accepted one) overwrites the velocity: right after it birdVelocity is -7
\* whatever it was, and lastFlapTime is the time of that flap.
C24_FlapOverwrites ==
    [][(lastOp' = "flap" /\ gameStarted /\ ~gameOver /\ flapAge >= 30) =>
          (birdVelocity' = -70 /\ flapAge' = 0)]_vars

\* a flap has just been accepted while the bird was falling at 2 or more
C24_Witness ==
    /\ lastOp = "flap"
    /\ flaps = 1
    /\ ticks >= 10
    /\ birdVelocity = -70
    /\ flapAge = 0

\* C25: every entry into Running, and every beginGameplay() a countdown ends
\* with, leaves the same state of the round: bird at y = 240, velocity 0, no
\* obstacle, score 0, the terminal flag cleared.
C25_SameStartOfRound ==
    [][(\/ ~(gameStarted /\ ~gameOver) /\ (gameStarted' /\ ~gameOver')
        \/ lastOp' = "countdown" /\ Len(frames') > Len(frames)) =>
          /\ lastOp' = "countdown"
          /\ birdY' = 2400
          /\ birdVelocity' = 0
          /\ obstacles' = <<>>
          /\ score' = 0
          /\ gameStarted' /\ ~gameOver']_vars

\* a round has just begun after one that was flown to a score of 20
C25_Witness ==
    /\ lastOp = "countdown"
    /\ gameStarted
    /\ currentRound > 1
    /\ bestScore = 20
    /\ birdY = 2400

\* C26: the ceiling is a soft bound.  A tick whose integrated position is
\* above y = 30 leaves the bird at y = 30 with velocity 0, and sets the
\* terminal flag only if the bird, there, overlaps an obstacle outside its gap.
C26_CeilingIsSoft ==
    [][(lastOp' = "tick" /\ birdY + Min(birdVelocity + 2, 100) < 300) =>
          /\ birdY' = 300
          /\ birdVelocity' = 0
          /\ gameOver' =>
                \E i \in 1..Len(obstacles') :
                   /\ obstacles'[i].x < 1500 + 300 - 60
                   /\ 1500 - 300 + 60 < obstacles'[i].x + 800
                   /\ \/ 300 - 300 + 60 < obstacles'[i].gapTop
                      \/ 300 + 300 - 60 > obstacles'[i].gapBottom]_vars

\* a tick has just stopped the bird at the ceiling, the round still running
C26_Witness ==
    /\ lastOp = "tick"
    /\ birdY = 300
    /\ birdVelocity = 0
    /\ gameStarted /\ ~gameOver
    /\ obstacles # <<>>

\* C27: the floor is death.  A tick whose integrated position is below
\* y = 450 leaves the bird at y = 450 with the terminal flag set, and still
\* runs to its end: an obstacle is spawned if one is due, every obstacle
\* advances by 2.5, those that pass are scored; then the round ends.
C27_FloorIsDeath ==
    [][(lastOp' = "tick" /\ birdY + Min(birdVelocity + 2, 100) > 4500) =>
          /\ birdY' = 4500
          /\ gameOver'
          /\ ~gameStarted'
          /\ \A j \in 1..Len(obstacles) :
                \/ obstacles[j].x - 25 + 800 < 0
                \/ \E i \in 1..Len(obstacles') : obstacles'[i].x = obstacles[j].x - 25
          /\ (obstacles = <<>> \/ 6400 - obstacles[Len(obstacles)].x > 3000) <=>
                (obstacles' # <<>> /\ obstacles'[Len(obstacles')].x = 6400 - 25)
          /\ score' = score + 10 * Cardinality({j \in 1..Len(obstacles) :
                          ~obstacles[j].passed /\ obstacles[j].x - 25 + 800 < 1500})]_vars

\* the bird is on the floor, still at the velocity it fell with, the round
\* over and both obstacles moved on in the same tick
C27_Witness ==
    /\ lastOp = "tick"
    /\ birdY = 4500
    /\ birdVelocity = 100
    /\ gameOver /\ ~gameStarted
    /\ Len(obstacles) = 2
    /\ obstacles[1].x = 6400 - 25 * ticks
    /\ obstacles[2].x = 6400 - 25 * (ticks - 121)

\* C28: the spawn policy.  After every tick the list of obstacles is not
\* empty; a tick spawns an obstacle at x = 640 (found at 637.5 after the tick,
\* newest of the list) iff at its start the list is empty or its newest
\* obstacle has 640 - x > 300; and consecutive obstacles of the list are
\* always more than 300 apart.
C28_SpawnPolicy ==
    /\ [](\A i \in 1..(Len(obstacles) - 1) :
             obstacles[i + 1].x - obstacles[i].x > 3000)
    /\ [][lastOp' = "tick" =>
            /\ obstacles' # <<>>
            /\ (obstacles = <<>> \/ 6400 - obstacles[Len(obstacles)].x > 3000) <=>
                  obstacles'[Len(obstacles')].x = 6400 - 25]_vars

\* the second obstacle of a round has just been spawned, 302.5 behind the first
C28_Witness ==
    /\ lastOp = "tick"
    /\ gameStarted /\ ~gameOver
    /\ Len(obstacles) = 2
    /\ obstacles[2].x = 6400 - 25
    /\ obstacles[2].x - obstacles[1].x = 3025

\* C29: every obstacle has gapBottom - gapTop = 200 and 80 <= gapTop <= 200,
\* so 280 <= gapBottom <= 400, and keeps the bounds of its gap as long as it
\* is listed.
C29_GapBounds ==
    /\ [](\A i \in 1..Len(obstacles) :
             /\ obstacles[i].gapBottom - obstacles[i].gapTop = 2000
             /\ 800 <= obstacles[i].gapTop /\ obstacles[i].gapTop <= 2000
             /\ 2800 <= obstacles[i].gapBottom /\ obstacles[i].gapBottom <= 4000)
    /\ [][IF lastOp' = "tick"
          THEN \A i \in 1..Len(obstacles') : \A j \in 1..Len(obstacles) :
                  obstacles'[i].x = obstacles[j].x - 25 =>
                     /\ obstacles'[i].gapTop = obstacles[j].gapTop
                     /\ obstacles'[i].gapBottom = obstacles[j].gapBottom
          ELSE obstacles' = obstacles \/ obstacles' = <<>>]_vars

\* two obstacles with the lowest and the highest gap, the first one passed
C29_Witness ==
    /\ lastOp = "tick"
    /\ Len(obstacles) = 2
    /\ obstacles[1].passed
    /\ obstacles[1].gapTop = 800
    /\ obstacles[2].gapTop = 1999
    /\ obstacles[2].gapBottom = 3999

\* C30: the bird is never above y = 30 nor below y = 450 after a tick, so its
\* box taken 6 in is never out of the screen: the screen-bounds branch of
\* checkCollision is never what reports a collision.
C30_BirdInBounds ==
    /\ 300 <= birdY /\ birdY <= 4500
    /\ ~(birdY - 300 + 60 < 0)
    /\ ~(birdY + 300 - 60 > 4800)

\* the bird has been stopped at the ceiling and has then fallen to the floor
C30_Witness ==
    /\ lastOp = "tick"
    /\ flaps = BounceFlaps
    /\ birdY = 4500
    /\ gameOver

\* ---------------------------------------------------------------------
\* Properties of a round: velocity range, list size, scoring and clearance
\* ---------------------------------------------------------------------

\* C31: the velocity is bounded on both sides: in every reachable state
\* birdVelocity is within [-7, 10], and in the state after a physics tick
\* it is within [-6.8, 10].
C31_VelocityBounded ==
    /\ FLAP_STRENGTH <= birdVelocity
    /\ birdVelocity <= TerminalVelocity
    /\ lastOp = "tick" => FLAP_STRENGTH + GRAVITY <= birdVelocity

\* the tick right after an accepted flap: the velocity is -6.8
C31_Witness ==
    /\ lastOp = "tick"
    /\ flaps > 0
    /\ birdVelocity = FLAP_STRENGTH + GRAVITY

\* C32: the obstacle list never holds more than 3 obstacles, and every
\* obstacle in the list after a physics tick has -80 <= x <= 637.5.
C32_AtMostThreeObstacles ==
    /\ Len(obstacles) <= 3
    /\ lastOp = "tick" =>
          \A i \in 1..Len(obstacles) :
              /\ -OBSTACLE_WIDTH <= obstacles[i].x
              /\ obstacles[i].x <= SCREEN_WIDTH - OBSTACLE_SPEED

\* three obstacles after a tick, the oldest in its last tick in the list
\* (x = -80, one tick before its removal)
C32_Witness ==
    /\ lastOp = "tick"
    /\ Len(obstacles) = 3
    /\ obstacles[1].x = -OBSTACLE_WIDTH

\* checkCollision: the horizontal test of the shrunk box against one obstacle
OverlapsBird(o) ==
    LET forgiveness == BIRD_SIZE \div 10
        safeLeft == (BIRD_X - BIRD_SIZE \div 2) + forgiveness
        safeRight == (BIRD_X + BIRD_SIZE \div 2) - forgiveness
    IN  safeRight > o.x /\ safeLeft < o.x + OBSTACLE_WIDTH

\* checkCollision: the vertical test of the shrunk box against one obstacle
OutsideGap(y, o) ==
    LET forgiveness == BIRD_SIZE \div 10
        safeTop == (y - BIRD_SIZE \div 2) + forgiveness
        safeBottom == (y + BIRD_SIZE \div 2) - forgiveness
    IN  safeTop < o.gapTop \/ safeBottom > o.gapBottom

\* The player smiles inside an obstacle: a round runs, an obstacle is over and
\* under the bird, and flap() would accept
GlideSmiles ==
    /\ gameStarted /\ ~gameOver
    /\ flaps < PilotFlaps
    /\ FlapAccepts(flapAge, gameStarted, gameOver)
    /\ \E i \in 1..Len(obstacles) : OverlapsBird(obstacles[i])

\* flap() from a smile inside an obstacle
GlideFlap ==
    /\ GlideSmiles
    /\ Flap(PilotFlaps)

\* gameLoop of a player who pilots as in SpecPilot up to an obstacle and
\* smiles or not as they like inside it
GlideLoop(gapTop) ==
    /\ ~(/\ PilotSmiles
         /\ birdY >= PilotLine + PilotSlack
         /\ \A i \in 1..Len(obstacles) : ~OverlapsBird(obstacles[i]))
    /\ GameLoop(gapTop, GlideTicks)

\* one round of a player who may hit the first obstacle from within its gap
NextGlide ==
    \/ ClickStart /\ UNCHANGED detVars
    \/ InitResolved /\ UNCHANGED detVars
    \/ (\E i \in 1..Len(intervals) : CountdownFire(i)) /\ UNCHANGED detVars
    \/ PilotFlap /\ UNCHANGED detVars
    \/ GlideFlap /\ UNCHANGED detVars
    \/ Vsync /\ UNCHANGED detVars
    \/ (\E gapTop \in GapTops : GlideLoop(gapTop)) /\ UNCHANGED detVars

SpecGlide == Init /\ [][NextGlide]_vars

\* update: the obstacle has crossed the scoring line in the tick that moved
\* it to where it is
JustPassed(o) ==
    /\ o.x + OBSTACLE_WIDTH < BIRD_X
    /\ o.x + OBSTACLE_SPEED + OBSTACLE_WIDTH >= BIRD_X

\* C33: scoring precedes clearance: an obstacle of the list is marked passed
\* as soon as x + 80 < 150, the tick that marks it leaves it horizontally
\* overlapping the bird's shrunk box, and a passed obstacle overlaps the box
\* until x + 80 <= 126.
C33_ScoredBeforeClear ==
    \A i \in 1..Len(obstacles) :
        /\ obstacles[i].passed <=> obstacles[i].x + OBSTACLE_WIDTH < BIRD_X
        /\ JustPassed(obstacles[i]) => OverlapsBird(obstacles[i])
        /\ obstacles[i].passed =>
              (OverlapsBird(obstacles[i]) <=>
                  obstacles[i].x + OBSTACLE_WIDTH
                      > BIRD_X - BIRD_SIZE \div 2 + BIRD_SIZE \div 10)

\* the round ends by collision with the obstacle that the same tick has
\* scored: the bird is off the floor and outside the gap of that obstacle
C33_Witness ==
    /\ lastOp = "tick"
    /\ gameOver
    /\ score > 0
    /\ birdY < SCREEN_HEIGHT - birdRadius
    /\ \E i \in 1..Len(obstacles) :
          /\ obstacles[i].passed
          /\ JustPassed(obstacles[i])
          /\ OverlapsBird(obstacles[i])
          /\ OutsideGap(birdY, obstacles[i])

\* ---------------------------------------------------------------------
\* Termination of a round and what follows it
\* ---------------------------------------------------------------------

\* C34: a round in which no flap is accepted always terminates: its ticks
\* are counted up from the call of beginGameplay without starting over, and
\* unless a flap is accepted after all or quitGame is called it ends on the
\* floor at exactly the 46th tick, with velocity 9.2 (below the cap of 10),
\* the position clamped to 450, score 0 and the first obstacle still right
\* of the bird.
C34_FlaplessRoundTerminates ==
    /\ [](flaps = 0 /\ lastOp = "tick" =>
            /\ ticks <= 46
            /\ gameOver <=> ticks = 46
            /\ birdVelocity = GRAVITY * ticks
            /\ birdVelocity < TerminalVelocity
            /\ score = 0
            /\ \A i \in 1..Len(obstacles) :
                  /\ ~obstacles[i].passed
                  /\ ~OverlapsBird(obstacles[i])
                  /\ obstacles[i].x > BIRD_X + BIRD_SIZE \div 2
            /\ ticks = 46 => (birdY = SCREEN_HEIGHT - birdRadius /\ ~gameStarted))
    /\ [][(gameStarted /\ ~gameOver /\ flaps = 0) =>
             \/ flaps' > 0
             \/ lastOp' = "quit"
             \/ /\ flaps' = 0
                /\ ticks' >= ticks
                /\ gameOver' <=> (lastOp' = "tick" /\ ticks' = 46)]_vars

\* the 46th tick of a round without a flap has ended it on the floor
C34_Witness ==
    /\ flaps = 0
    /\ lastOp = "tick"
    /\ ticks = 46
    /\ gameOver
    /\ ~gameStarted
    /\ birdVelocity = 92
    /\ birdY = SCREEN_HEIGHT - birdRadius
    /\ score = 0
    /\ Len(obstacles) = 1

\* C35: the terminal flag ends the Running state for good: once it is set no
\* physics tick runs, the game is not started, and birdY, birdVelocity, the
\* obstacle list and the score stay as they are until a reset of the round
\* (startGame, startNextRound or beginGameplay) clears the flag.
C35_TerminalFlagFinal ==
    [][/\ gameOver' => ~gameStarted'
       /\ gameOver =>
             /\ lastOp' # "tick"
             /\ \/ UNCHANGED <<birdY, birdVelocity, obstacles, score>>
                \/ /\ ~gameOver'
                   /\ birdY' = SCREEN_HEIGHT \div 2
                   /\ birdVelocity' = 0
                   /\ obstacles' = <<>>
                   /\ score' = 0]_vars

\* a flap request after the tick that ended the round on the floor: the bird
\* is where that tick left it, with the velocity that tick left
C35_Witness ==
    /\ gameOver
    /\ lastOp = "flap"
    /\ ticks = 46
    /\ birdY = SCREEN_HEIGHT - birdRadius
    /\ birdVelocity = 92
    /\ obstacles # <<>>

----------------------------------------------------------------------------
(* The detector and the game together: the smile that flaps *)

\* The results fed where the detector drives the game: a neutral face or a
\* full smile
SmileResults ==
    {[face |-> TRUE, left |-> 0, right |-> 0], [face |-> TRUE, left |-> 90, right |-> 90]}

\* initialize() of the detector created by the startGame that is loading
SmileInitialize(results) ==
    /\ loads > 0
    /\ Initialize(results)
    /\ UNCHANGED gameVars

\* startGame() resuming after its await: the callback is installed on the
\* detector and the countdown started
SmileResolved ==
    /\ initContinuation
    /\ SetOnSmileChange
    /\ InitResolved

\* The schedules followed: at most one detectFrame callback runs between two
\* steps of the game, after the countdown, a physics tick or startNextRound
DetectorTurn == lastOp \in {"resolved", "countdown", "tick", "next"}

\* the detectFrame callback, and flap() of the game when onSmileChange is
\* called with true
SmileFrame(results) ==
    /\ DetectorTurn
    /\ DetectFrame(results)
    /\ IF flapCalled'
       THEN Flap(SessionFlaps)
       ELSE /\ lastOp' = "frame"
            /\ UNCHANGED <<simVars, clockVars, sessionVars, uiVars, schedVars,
                           ticks, marked, flaps>>

\* gameLoop, a round being followed for MIN_FLAP_INTERVAL after an accepted
\* flap, while the gate rejects the next one
SmileLoop(gapTop) ==
    /\ flaps = 0 \/ flapAge < MIN_FLAP_INTERVAL
    /\ GameLoop(gapTop, SessionTicks)

\* rounds of one session played by the player's face
NextSmile ==
    \/ ClickStart /\ UNCHANGED detVars
    \/ \E results \in SmileResults : SmileInitialize(results)
    \/ SmileResolved
    \/ (\E i \in 1..Len(intervals) : CountdownFire(i)) /\ UNCHANGED detVars
    \/ \E results \in SmileResults : SmileFrame(results)
    \/ Vsync /\ UNCHANGED detVars
    \/ (\E gapTop \in SessionGapTops : SmileLoop(gapTop)) /\ UNCHANGED detVars
    \/ ClickNextRound /\ UNCHANGED detVars

SpecSmile == Init /\ [][NextSmile]_vars

\* C36: the detector's buffer and gesture state are not reset at round
\* boundaries and the flap trigger is edge-based: startNextRound, the
\* countdown and beginGameplay leave the buffer and isSmiling as they are;
\* flap() is called only by the detection cycle that takes the gesture state
\* from Idle to Active, with a smoothed score above 0.6; and the gesture
\* state leaves Active only by a cycle whose smoothed score is below 0.4.
\* So while the smile is held, from before a round entered Running or from
\* a flap() call that the gate rejected, no flap is delivered.
C36_EdgeBasedFlap ==
    [][/\ lastOp' \in {"next", "countdown", "tick", "vsync", "skip", "return"}
             => UNCHANGED <<smileBuffer, isSmiling>>
       /\ flaps' > flaps => lastOp' = "flap"
       /\ lastOp' = "flap" =>
             /\ ~isSmiling /\ isSmiling'
             /\ smileScore' > triggerThreshold * MeanScale
       /\ (isSmiling /\ ~isSmiling') => smileScore' < resetThreshold * MeanScale
       /\ isSmiling => (flaps' <= flaps /\ lastOp' # "flap")]_vars

\* a smile held across the round boundary: round 2 is Running, the gesture
\* state is Active with a full buffer of 0.9, a detection cycle has just run
\* and no flap has come in the round
C36_Witness ==
    /\ gameStarted /\ ~gameOver
    /\ currentRound = 2
    /\ ticks > bufferSize
    /\ flaps = 0
    /\ isSmiling
    /\ smileBuffer = <<90, 90, 90, 90, 90>>
    /\ lastOp = "frame"

\* a click on quit-btn once the load and the countdown are over: in a round
\* or on the round-over overlay
QuitRound ==
    /\ loads = 0
    /\ intervals = <<>>
    /\ ClickQuit

\* sessions, replays included, of a player who scores and may quit
NextRematch ==
    \/ ClickStart /\ UNCHANGED detVars
    \/ ClickReplay /\ UNCHANGED detVars
    \/ InitResolved /\ UNCHANGED detVars
    \/ (\E i \in 1..Len(intervals) : CountdownFire(i)) /\ UNCHANGED detVars
    \/ PilotFlap /\ UNCHANGED detVars
    \/ GlideFlap /\ UNCHANGED detVars
    \/ Vsync /\ UNCHANGED detVars
    \/ (\E gapTop \in SessionGapTops : GlideLoop(gapTop)) /\ UNCHANGED detVars
    \/ ClickNextRound /\ UNCHANGED detVars
    \/ QuitRound /\ UNCHANGED detVars

SpecRematch == Init /\ [][NextRematch]_vars

\* C37: bestScore never decreases and is never reset while the game object
\* lives: startGame (from the intro screen or as a replay from the CTA
\* screen), startNextRound, the countdown, flap and quitGame leave it as it
\* is, so a replayed session starts with the best score of the session
\* before it.
C37_BestScoreKept ==
    [][/\ bestScore' >= bestScore
       /\ lastOp' \in {"start", "resolved", "countdown", "next", "quit", "flap",
                       "vsync", "skip", "return"}
             => bestScore' = bestScore
       /\ bestScore' # bestScore => (lastOp' = "tick" /\ gameOver')]_vars

\* round 1 of a replayed session is loading, the best score of the session
\* before still there
C37_Witness ==
    /\ lastOp = "start"
    /\ currentRound = 1
    /\ score = 0
    /\ bestScore = 10

\* sessions with replay of a player who lets the bird fall in every round and
\* quits, if at all, once the load and the countdown are over
NextFinale ==
    \/ ClickStart /\ UNCHANGED detVars
    \/ ClickReplay /\ UNCHANGED detVars
    \/ InitResolved /\ UNCHANGED detVars
    \/ InitRejected /\ UNCHANGED detVars
    \/ (\E i \in 1..Len(intervals) : CountdownFire(i)) /\ UNCHANGED detVars
    \/ FlapIdle /\ UNCHANGED detVars
    \/ Vsync /\ UNCHANGED detVars
    \/ (\E gapTop \in SessionGapTops : GameLoop(gapTop, SessionTicks)) /\ UNCHANGED detVars
    \/ ClickNextRound /\ UNCHANGED detVars
    \/ QuitRound /\ UNCHANGED detVars

SpecFinale == Init /\ [][NextFinale]_vars

\* sessions of a player who never flaps, under start, quit in any state the
\* game screen shows, replay and next round, with up to MaxLoads
\* initialisations pending
NextRestart ==
    \/ ClickStart /\ UNCHANGED detVars
    \/ ClickReplay /\ UNCHANGED detVars
    \/ InitResolved /\ UNCHANGED detVars
    \/ (\E i \in 1..Len(intervals) : CountdownFire(i)) /\ UNCHANGED detVars
    \/ Vsync /\ UNCHANGED detVars
    \/ (\E gapTop \in SessionGapTops : GameLoop(gapTop, SessionTicks)) /\ UNCHANGED detVars
    \/ ClickNextRound /\ UNCHANGED detVars
    \/ ClickQuit /\ UNCHANGED detVars

SpecRestart == Init /\ [][NextRestart]_vars

\* C38: each round start begins gameplay exactly once: at most one countdown
\* interval is live at a time, and beginGameplay is not called, so the bird,
\* the obstacles and the score are not reset, while a round is Running.
C38_OneBeginPerRound ==
    /\ [](Len(intervals) <= 1)
    /\ [][(gameStarted /\ ~gameOver) =>
             ~(lastOp' = "countdown" /\ Len(frames') > Len(frames))]_vars

\* two gameLoop callbacks are requested in a Running round: beginGameplay has
\* been called again, from a countdown interval that reached 0 and was never
\* cleared, and the round has started over
C38_Witness ==
    /\ lastOp = "countdown"
    /\ gameStarted /\ ~gameOver
    /\ ticks = 0
    /\ Len(frames) = 2
    /\ \E i \in 1..Len(intervals) : intervals[i].count = 0

====
